---- MODULE Spec2Model ----
(***************************************************************************)
(* Model of the chained hash table of src/src/symtablehash.c.              *)
(*                                                                         *)
(* A key is a null-terminated string, modelled as the sequence of its      *)
(* character codes.  A value is an opaque pointer, modelled as a number,   *)
(* NULL being 0.  A chain is the sequence of the bindings reachable from   *)
(* a bucket head through next, head first.  The bucket array is a function *)
(* on 0 .. uiBuckets-1, as in C.                                           *)
(*                                                                         *)
(* The size sequence BUCKARR of the source is {519, 1021, ..., 65521}.     *)
(* It is a component of the state that no call changes.  Spec starts with  *)
(* BUCKARR_SMALL, which keeps its shape (ascending, first entry            *)
(* MIN_BUCKETS, last entry MAX_BUCKETS) with small sizes, so that every    *)
(* growth threshold and the saturation at the maximum are crossed with a   *)
(* handful of keys.  SpecSource starts with the sequence of the source and *)
(* puts a fixed run of distinct keys.                                      *)
(*                                                                         *)
(* Spec has every call on a live table; SpecWrite has put and remove       *)
(* alone.  SpecMem records the calls of malloc and free and adds           *)
(* SymTable_free and a new SymTable_new; SpecOrder records the order of    *)
(* the puts.                                                               *)
(***************************************************************************)
EXTENDS Integers, Sequences, FiniteSets, TLC

(* ---------------------------- bounds ----------------------------------- *)

\* number of distinct keys the callers use (the first NumKeys of KeyList)
NumKeys == 4

\* the callers' values are the pointers 0 .. MaxValue, 0 being NULL
MaxValue == 1

\* the number of puts of the run with the sizes of the source: it reaches the
\* second size of BUCKARR_SOURCE
MaxPuts == 1021

(* ---------------------- constants of the source ------------------------ *)

HASH_MULTIPLIER == 65599

\* the size sequence of the source; BUCKARR[i] of the source is BUCKARR[i + 1]
\* here
BUCKARR_SOURCE == <<519, 1021, 2053, 4093, 8191, 16381, 32771, 65521>>

\* a size sequence of the same shape, scaled down
BUCKARR_SMALL == <<1, 2, 3>>

NULL == 0

\* half of the width of unsigned int: uiHash is kept as two 16-bit halves,
\* since 2^32 is no number of the model checker
HALF == 65536

(* ------------------------- inputs -------------------------------------- *)

\* "aa" "b" "aaa" share a bucket of 3 and "aa" "b" "bb" a bucket of 2;
\* "aaa" makes the accumulation wrap around 2^32
KeyList ==
    << <<97, 97>>, <<98>>, <<97, 97, 97>>, <<98, 98>>, <<99, 99>>, <<97>>,
       <<99>>, <<97, 98>> >>

Keys == {KeyList[i] : i \in 1 .. NumKeys}

Values == 0 .. MaxValue

(* --------------------------- state ------------------------------------- *)

VARIABLES
    BUCKARR,    \* the size sequence, BUCKARR_SMALL or BUCKARR_SOURCE
    symtable,   \* struct SymTable: [uiBindings, uiBuckets, array]
    last,       \* the last call: [op, key, value, ret, visited]
    pre,        \* struct SymTable before the last call
    bound,      \* reference map: the keys bound by the calls so far -> their value
    pure,       \* TRUE while the calls so far put only keys never put before
    track,      \* what is recorded besides: "none", "heap" or "order"
    heap,       \* the cells allocated and not freed, and the error of free
    order,      \* the bound keys in the order of their puts, oldest first
    moved       \* the bound keys that a change of the bucket count has relinked

vars == <<BUCKARR, symtable, last, pre, bound, pure, track, heap, order, moved>>

\* the first and the last entry of BUCKARR
MIN_BUCKETS == BUCKARR[1]

MAX_BUCKETS == BUCKARR[Len(BUCKARR)]

(* ------------------------- SymTable_hash ------------------------------- *)

\* one round of  uiHash = uiHash * HASH_MULTIPLIER + pcKey[ui]  modulo 2^32,
\* on uiHash = hi * 2^16 + lo
\* mutant: the carry of the low half is lost
HashStep_NoCarry(h, c) ==
    LET mh == HASH_MULTIPLIER \div HALF
        ml == HASH_MULTIPLIER % HALF
    IN  [hi |-> (h.hi * ml + h.lo * mh) % HALF,
         lo |-> (h.lo * ml + c) % HALF]

HashStep(h, c) ==
    LET mh == HASH_MULTIPLIER \div HALF
        ml == HASH_MULTIPLIER % HALF
        low == h.lo * ml + c
    IN  [hi |-> (h.hi * ml + h.lo * mh + low \div HALF) % HALF,
         lo |-> low % HALF]

RECURSIVE HashLoop(_, _, _)
HashLoop(pcKey, ui, uiHash) ==
    IF ui > Len(pcKey) THEN uiHash
    ELSE HashLoop(pcKey, ui + 1, HashStep(uiHash, pcKey[ui]))

SymTable_hash(uiBuckets, pcKey) ==
    LET h == HashLoop(pcKey, 1, [hi |-> 0, lo |-> 0])
    IN  ((h.hi % uiBuckets) * (HALF % uiBuckets) + h.lo) % uiBuckets

(* ------------------------- SymTable_new -------------------------------- *)

\* mutant: the binding count is left at 1
SymTable_new_Count ==
    [uiBindings |-> 1,
     uiBuckets  |-> MIN_BUCKETS,
     array      |-> [ui \in 0 .. BUCKARR[1] - 1 |-> <<>>]]

SymTable_new ==
    [uiBindings |-> 0,
     uiBuckets  |-> MIN_BUCKETS,
     array      |-> [ui \in 0 .. BUCKARR[1] - 1 |-> <<>>]]

(* ------------------------ chain traversal ------------------------------ *)

\* the loop  while (ptr) { if (!strcmp(ptr->key, pcKey)) ...; ptr = ptr->next; }
\* position in the chain of the first binding whose key is pcKey, 0 if none
RECURSIVE ChainFind(_, _, _)
ChainFind(chain, pcKey, i) ==
    IF i > Len(chain) THEN 0
    ELSE IF chain[i].key = pcKey THEN i
    ELSE ChainFind(chain, pcKey, i + 1)

(* ----------------------- SymTable_getLength ---------------------------- *)

SymTable_getLength(t) == t.uiBindings

(* ----------------------- SymTable_contains ----------------------------- *)

\* mutant: only the head of the chain is compared
SymTable_contains_Head(t, pcKey) ==
    LET chain == t.array[SymTable_hash(t.uiBuckets, pcKey)]
    IN  IF chain # <<>> /\ chain[1].key = pcKey THEN 1 ELSE 0

SymTable_contains(t, pcKey) ==
    LET uiHash == SymTable_hash(t.uiBuckets, pcKey)
    IN  IF ChainFind(t.array[uiHash], pcKey, 1) # 0 THEN 1 ELSE 0

(* -------------------------- SymTable_get ------------------------------- *)

\* mutant: returns the value of the head of the chain the key is found in
SymTable_get_Head(t, pcKey) ==
    LET uiHash == SymTable_hash(t.uiBuckets, pcKey)
        chain  == t.array[uiHash]
        i      == ChainFind(chain, pcKey, 1)
    IN  IF i # 0 THEN chain[1].value ELSE NULL

SymTable_get(t, pcKey) ==
    LET uiHash == SymTable_hash(t.uiBuckets, pcKey)
        chain  == t.array[uiHash]
        i      == ChainFind(chain, pcKey, 1)
    IN  IF i # 0 THEN chain[i].value ELSE NULL

(* ------------------------- SymTable_change ----------------------------- *)

\* mutant: next is overwritten before it is saved, so that only the head of
\* each old chain is moved
ChangeChain_HeadOnly(chain, i, uiBuckets, bind_arr) ==
    IF chain = <<>> THEN bind_arr
    ELSE [bind_arr EXCEPT ![SymTable_hash(uiBuckets, chain[1].key)] =
              <<chain[1]>> \o @]

\* the inner loop: each binding of the old chain, head first, is pushed to the
\* front of the new bucket its key hashes to
RECURSIVE ChangeChain(_, _, _, _)
ChangeChain(chain, i, uiBuckets, bind_arr) ==
    IF i > Len(chain) THEN bind_arr
    ELSE LET uiHash == SymTable_hash(uiBuckets, chain[i].key)
         IN  ChangeChain(chain, i + 1, uiBuckets,
                 [bind_arr EXCEPT ![uiHash] = <<chain[i]>> \o @])

\* the outer loop over the old buckets ui, ui + 1, ..., uiEnd - 1, in this
\* order.  The run is evaluated as two runs, the first half before the
\* second, so that the evaluation of a run of 519 buckets nests ten deep and
\* not 519 deep; the test of the heads of bind_arr has it evaluated before
\* the run starts (an array of no heads takes no binding).
RECURSIVE ChangeLoop(_, _, _, _, _)
ChangeLoop(t, ui, uiEnd, uiBuckets, bind_arr) ==
    IF ui >= uiEnd \/ DOMAIN bind_arr = {} THEN bind_arr
    ELSE IF uiEnd = ui + 1
         THEN ChangeChain(t.array[ui], 1, uiBuckets, bind_arr)
         ELSE LET uiMid == (ui + uiEnd) \div 2
              IN  ChangeLoop(t, uiMid, uiEnd, uiBuckets,
                      ChangeLoop(t, ui, uiMid, uiBuckets, bind_arr))

\* mutant: the new bucket count is not stored
SymTable_change_NoCount(t, uiBuckets) ==
    [uiBindings |-> t.uiBindings,
     uiBuckets  |-> t.uiBuckets,
     array      |-> ChangeLoop(t, 0, t.uiBuckets, uiBuckets,
                        [ui \in 0 .. uiBuckets - 1 |-> <<>>])]

SymTable_change(t, uiBuckets) ==
    [uiBindings |-> t.uiBindings,
     uiBuckets  |-> uiBuckets,
     array      |-> ChangeLoop(t, 0, t.uiBuckets, uiBuckets,
                        [ui \in 0 .. uiBuckets - 1 |-> <<>>])]

(* --------------------------- SymTable_put ------------------------------ *)

\* mutant: the search starts only when the count exceeds the bucket count
RECURSIVE PutBuckets_Late(_, _, _)
PutBuckets_Late(uiBindings, uiBuckets, idx) ==
    IF uiBindings > uiBuckets /\ uiBuckets # MAX_BUCKETS
    THEN PutBuckets_Late(uiBindings, BUCKARR[(idx + 1) + 1], idx + 1)
    ELSE uiBuckets

\* mutant: a table that must grow takes the maximum size at once
PutBuckets_Max(uiBindings, uiBuckets, idx) ==
    IF uiBindings >= uiBuckets /\ uiBuckets # MAX_BUCKETS
    THEN MAX_BUCKETS ELSE uiBuckets

\* mutant: the table never grows
PutBuckets_Never(uiBindings, uiBuckets, idx) == uiBuckets

\* the search  while (uiBindings >= uiBuckets && uiBuckets != MAX_BUCKETS)
\*                 uiBuckets = BUCKARR[++idx];      with idx starting at 0
RECURSIVE PutBuckets(_, _, _)
PutBuckets(uiBindings, uiBuckets, idx) ==
    IF uiBindings >= uiBuckets /\ uiBuckets # MAX_BUCKETS
    THEN PutBuckets(uiBindings, BUCKARR[(idx + 1) + 1], idx + 1)
    ELSE uiBuckets

\* the value of idx when the search ends: the last index of BUCKARR it has read
\* (an index of the source, from 0)
RECURSIVE PutIdx(_, _, _)
PutIdx(uiBindings, uiBuckets, idx) ==
    IF uiBindings >= uiBuckets /\ uiBuckets # MAX_BUCKETS
    THEN PutIdx(uiBindings, BUCKARR[(idx + 1) + 1], idx + 1)
    ELSE idx

\* mutant: the hash is computed before the growth, under the old bucket count
PutHash_Old(t, uiBuckets, pcKey) == SymTable_hash(t.uiBuckets, pcKey)

\* the bucket the new binding is linked into
PutHash(t, uiBuckets, pcKey) == SymTable_hash(uiBuckets, pcKey)

\* mutant: the binding count is not incremented
PutLink_NoCount(t, uiHash, pcKey, pvValue) ==
    [t EXCEPT !.array[uiHash] = <<[key |-> pcKey, value |-> pvValue]>> \o @]

\* mutant: the new binding is linked after every other binding of its bucket
PutLink_Back(t, uiHash, pcKey, pvValue) ==
    [t EXCEPT !.array[uiHash] = @ \o <<[key |-> pcKey, value |-> pvValue]>>,
              !.uiBindings = @ + 1]

\* the new binding is linked before every other binding of its bucket
PutLink(t, uiHash, pcKey, pvValue) ==
    [t EXCEPT !.array[uiHash] = <<[key |-> pcKey, value |-> pvValue]>> \o @,
              !.uiBindings = @ + 1]

\* mutant: no duplicate check
PutExists_Never(t, pcKey) == FALSE

\* the duplicate check
PutExists(t, pcKey) == SymTable_contains(t, pcKey) # 0

\* mutant: the growth search runs before the duplicate check
SymTable_put_GrowFirst(t, pcKey, pvValue) ==
    LET uiBuckets == PutBuckets(t.uiBindings, t.uiBuckets, 0)
        t1 == IF uiBuckets # t.uiBuckets
              THEN SymTable_change(t, uiBuckets) ELSE t
    IN  IF PutExists(t, pcKey) THEN [table |-> t1, ret |-> 0]
        ELSE [table |-> PutLink(t1, PutHash(t, uiBuckets, pcKey), pcKey, pvValue),
              ret |-> 1]

\* mutant: a put into a table that is full at the maximum size is refused
SymTable_put_Full(t, pcKey, pvValue) ==
    IF PutExists(t, pcKey) \/ (t.uiBuckets = MAX_BUCKETS /\ t.uiBindings >= t.uiBuckets)
    THEN [table |-> t, ret |-> 0]
    ELSE LET uiBuckets == PutBuckets(t.uiBindings, t.uiBuckets, 0)
             t1 == IF uiBuckets # t.uiBuckets
                   THEN SymTable_change(t, uiBuckets) ELSE t
         IN  [table |-> PutLink(t1, PutHash(t, uiBuckets, pcKey), pcKey, pvValue),
              ret |-> 1]

\* the result of the call: the table after it and the value returned
SymTable_put(t, pcKey, pvValue) ==
    IF PutExists(t, pcKey) THEN [table |-> t, ret |-> 0]
    ELSE LET uiBuckets == PutBuckets(t.uiBindings, t.uiBuckets, 0)
             t1 == IF uiBuckets # t.uiBuckets
                   THEN SymTable_change(t, uiBuckets) ELSE t
             uiHash == PutHash(t, uiBuckets, pcKey)
         IN  [table |-> PutLink(t1, uiHash, pcKey, pvValue), ret |-> 1]

(* -------------------------- SymTable_remove ---------------------------- *)

\* mutant: the head is unlinked whatever binding was found
Unlink_Head(chain, i) == Tail(chain)

\* mutant: the predecessor's next is cleared, which drops the rest of the chain
Unlink_Truncate(chain, i) == SubSeq(chain, 1, i - 1)

\* chain without its i-th binding: the head is replaced by its successor, or
\* the predecessor's next skips the binding
Unlink(chain, i) ==
    IF i = 1 THEN Tail(chain)
    ELSE SubSeq(chain, 1, i - 1) \o SubSeq(chain, i + 1, Len(chain))

\* a negative uiBindings stands for a wrapped unsigned counter
SymTable_remove(t, pcKey) ==
    LET uiHash == SymTable_hash(t.uiBuckets, pcKey)
        i      == ChainFind(t.array[uiHash], pcKey, 1)
    IN  IF i = 0 THEN [table |-> t, ret |-> 0]
        ELSE [table |-> [t EXCEPT !.array[uiHash] = Unlink(@, i),
                                  !.uiBindings = @ - 1],
              ret |-> 1]

(* --------------------------- SymTable_map ------------------------------ *)

\* mutant: the last bucket is not visited
RECURSIVE MapLoop_SkipLast(_, _, _)
MapLoop_SkipLast(t, ui, calls) ==
    IF ui >= t.uiBuckets - 1 THEN calls
    ELSE MapLoop_SkipLast(t, ui + 1, calls \o t.array[ui])

\* the calls of pfApply, in order: bucket by bucket, each chain head first
RECURSIVE MapLoop(_, _, _)
MapLoop(t, ui, calls) ==
    IF ui >= t.uiBuckets THEN calls
    ELSE MapLoop(t, ui + 1, calls \o t.array[ui])

SymTable_map(t) == MapLoop(t, 0, <<>>)

(* ------------------------- reference map ------------------------------- *)

\* what the calls made so far bind, by the contract of put and remove alone
RefPut(b, pcKey, pvValue) ==
    IF pcKey \in DOMAIN b THEN b
    ELSE [k \in DOMAIN b \cup {pcKey} |-> IF k = pcKey THEN pvValue ELSE b[k]]

RefRemove(b, pcKey) == [k \in DOMAIN b \ {pcKey} |-> b[k]]

(* ----------------------------- the heap -------------------------------- *)

\* The cells malloc returns.  A cell is named by what it holds: the struct, a
\* bucket array of n heads, the node of a key, the copy of a key.  Two cells of
\* one name are two allocations that are live at the same time.
TableCell == <<"table", <<>>>>

ArrayCell(n) == <<"array", <<n>>>>

NodeCell(pcKey) == <<"node", pcKey>>

KeyCell(pcKey) == <<"key", pcKey>>

Malloc(c) == [op |-> "malloc", cell |-> c]

Dealloc(c) == [op |-> "free", cell |-> c]

\* heap.cells: the allocated cells, each with the number of its allocations;
\* heap.err: free has been called on a cell that is not allocated
MemStep(h, e) ==
    IF e.op = "malloc"
    THEN [h EXCEPT !.cells =
              IF e.cell \in DOMAIN @
              THEN [@ EXCEPT ![e.cell] = @ + 1]
              ELSE [c \in DOMAIN @ \cup {e.cell} |-> IF c = e.cell THEN 1 ELSE @[c]]]
    ELSE IF e.cell \notin DOMAIN h.cells THEN [h EXCEPT !.err = TRUE]
    ELSE [h EXCEPT !.cells =
              IF @[e.cell] > 1
              THEN [@ EXCEPT ![e.cell] = @ - 1]
              ELSE [c \in DOMAIN @ \ {e.cell} |-> @[c]]]

RECURSIVE MemRun(_, _, _)
MemRun(h, events, i) ==
    IF i > Len(events) THEN h ELSE MemRun(MemStep(h, events[i]), events, i + 1)

NoHeap == [cells |-> [c \in {} |-> 0], err |-> FALSE]

\* the calls of malloc and free of each function, in order

NewMem == <<Malloc(TableCell), Malloc(ArrayCell(MIN_BUCKETS))>>

\* mutant: the old bucket array is not freed
ChangeMem_NoFree(t, uiBuckets) == <<Malloc(ArrayCell(uiBuckets))>>

ChangeMem(t, uiBuckets) ==
    <<Malloc(ArrayCell(uiBuckets)), Dealloc(ArrayCell(t.uiBuckets))>>

PutMem(t, pcKey) ==
    IF PutExists(t, pcKey) THEN <<>>
    ELSE LET uiBuckets == PutBuckets(t.uiBindings, t.uiBuckets, 0)
         IN  (IF uiBuckets # t.uiBuckets THEN ChangeMem(t, uiBuckets) ELSE <<>>)
                 \o <<Malloc(NodeCell(pcKey)), Malloc(KeyCell(pcKey))>>

RemoveMem(t, pcKey) ==
    LET chain == t.array[SymTable_hash(t.uiBuckets, pcKey)]
        i     == ChainFind(chain, pcKey, 1)
    IN  IF i = 0 THEN <<>>
        ELSE <<Dealloc(KeyCell(chain[i].key)), Dealloc(NodeCell(chain[i].key))>>

RECURSIVE FreeChain(_, _)
FreeChain(chain, i) ==
    IF i > Len(chain) THEN <<>>
    ELSE <<Dealloc(KeyCell(chain[i].key)), Dealloc(NodeCell(chain[i].key))>>
             \o FreeChain(chain, i + 1)

RECURSIVE FreeLoop(_, _)
FreeLoop(t, ui) ==
    IF ui >= t.uiBuckets THEN <<>>
    ELSE FreeChain(t.array[ui], 1) \o FreeLoop(t, ui + 1)

FreeMem(t) ==
    FreeLoop(t, 0) \o <<Dealloc(ArrayCell(t.uiBuckets)), Dealloc(TableCell)>>

(* ------------------------ insertion order ------------------------------ *)

\* the bound keys, oldest first, by the contract of put and remove alone
RefOrderPut(o, pcKey) ==
    IF \E i \in 1 .. Len(o) : o[i] = pcKey THEN o ELSE Append(o, pcKey)

RefOrderRemove(o, pcKey) == SelectSeq(o, LAMBDA k : k # pcKey)

(* --------------------------- the calls --------------------------------- *)

NoKey == <<>>

Call(op, key, value, ret, visited) ==
    [op |-> op, key |-> key, value |-> value, ret |-> ret, visited |-> visited]

\* the state SymTable_new returns in, given the size sequence and what is
\* recorded
Start(sizes, tr) ==
    /\ BUCKARR = sizes
    /\ track = tr
    /\ symtable = SymTable_new
    /\ last = Call("new", NoKey, NULL, 0, <<>>)
    /\ pre = SymTable_new
    /\ bound = [k \in {} |-> NULL]
    /\ pure = TRUE
    /\ heap = IF tr = "heap" THEN MemRun(NoHeap, NewMem, 1) ELSE NoHeap
    /\ order = <<>>
    /\ moved = {}

Init == Start(BUCKARR_SMALL, "none")

\* the handle the caller holds is the table: it is not destroyed (only
\* SymTable_free destroys it, which is called where the heap is recorded)
Alive == track = "heap" => TableCell \in DOMAIN heap.cells

\* the heap after the calls of malloc and free of a function
Heap(events) == IF track = "heap" THEN MemRun(heap, events, 1) ELSE heap

\* a call of SymTable_put; r is what the call returns and leaves
PutCall(pcKey, pvValue) ==
    \E r \in {SymTable_put(symtable, pcKey, pvValue)} :
        /\ Alive
        /\ symtable' = r.table
        /\ last' = Call("put", pcKey, pvValue, r.ret, <<>>)
        /\ pre' = symtable
        /\ bound' = RefPut(bound, pcKey, pvValue)
        /\ pure' = (pure /\ pcKey \notin DOMAIN bound)
        /\ heap' = Heap(PutMem(symtable, pcKey))
        /\ order' = IF track = "order" THEN RefOrderPut(order, pcKey) ELSE order
        /\ moved' = IF track = "order" /\ r.table.uiBuckets # symtable.uiBuckets
                    THEN {order[i] : i \in 1 .. Len(order)} ELSE moved
        /\ UNCHANGED <<BUCKARR, track>>

Put == \E pcKey \in Keys, pvValue \in Values : PutCall(pcKey, pvValue)

Remove ==
    \E pcKey \in Keys :
        \E r \in {SymTable_remove(symtable, pcKey)} :
            /\ Alive
            /\ symtable' = r.table
            /\ last' = Call("remove", pcKey, NULL, r.ret, <<>>)
            /\ pre' = symtable
            /\ bound' = RefRemove(bound, pcKey)
            /\ pure' = FALSE
            /\ heap' = Heap(RemoveMem(symtable, pcKey))
            /\ order' = IF track = "order" THEN RefOrderRemove(order, pcKey) ELSE order
            /\ moved' = moved \ {pcKey}
            /\ UNCHANGED <<BUCKARR, track>>

\* mutant: get moves the binding it finds to the head of its chain
Get_MoveToFront ==
    \E pcKey \in Keys :
        LET uiHash == SymTable_hash(symtable.uiBuckets, pcKey)
            chain  == symtable.array[uiHash]
            i      == ChainFind(chain, pcKey, 1)
        IN  /\ Alive
            /\ last' = Call("get", pcKey, NULL, SymTable_get(symtable, pcKey), <<>>)
            /\ pre' = symtable
            /\ symtable' = IF i = 0 THEN symtable
                           ELSE [symtable EXCEPT !.array[uiHash] =
                                    <<chain[i]>> \o Unlink(chain, i)]
            /\ UNCHANGED <<BUCKARR, track, bound, pure, heap, order, moved>>

Get ==
    \E pcKey \in Keys :
        /\ Alive
        /\ last' = Call("get", pcKey, NULL, SymTable_get(symtable, pcKey), <<>>)
        /\ pre' = symtable
        /\ UNCHANGED <<BUCKARR, track, symtable, bound, pure, heap, order, moved>>

Contains ==
    \E pcKey \in Keys :
        /\ Alive
        /\ last' = Call("contains", pcKey, NULL,
                        SymTable_contains(symtable, pcKey), <<>>)
        /\ pre' = symtable
        /\ UNCHANGED <<BUCKARR, track, symtable, bound, pure, heap, order, moved>>

GetLength ==
    /\ Alive
    /\ last' = Call("getLength", NoKey, NULL, SymTable_getLength(symtable), <<>>)
    /\ pre' = symtable
    /\ UNCHANGED <<BUCKARR, track, symtable, bound, pure, heap, order, moved>>

Map ==
    /\ Alive
    /\ last' = Call("map", NoKey, NULL, 0, SymTable_map(symtable))
    /\ pre' = symtable
    /\ UNCHANGED <<BUCKARR, track, symtable, bound, pure, heap, order, moved>>

\* SymTable_free of the table: the struct keeps what it held, and no call but
\* SymTable_new follows
Free ==
    /\ track = "heap"
    /\ Alive
    /\ last' = Call("free", NoKey, NULL, 0, <<>>)
    /\ pre' = symtable
    /\ heap' = MemRun(heap, FreeMem(symtable), 1)
    /\ UNCHANGED <<BUCKARR, track, symtable, bound, pure, order, moved>>

\* SymTable_free of a NULL handle
FreeNull ==
    /\ track = "heap"
    /\ last' = Call("freeNull", NoKey, NULL, 0, <<>>)
    /\ pre' = symtable
    /\ UNCHANGED <<BUCKARR, track, symtable, bound, pure, heap, order, moved>>

\* SymTable_new, once the table is destroyed
New ==
    /\ ~Alive
    /\ symtable' = SymTable_new
    /\ last' = Call("new", NoKey, NULL, 0, <<>>)
    /\ pre' = SymTable_new
    /\ bound' = [k \in {} |-> NULL]
    /\ pure' = TRUE
    /\ heap' = Heap(NewMem)
    /\ order' = <<>>
    /\ moved' = {}
    /\ UNCHANGED <<BUCKARR, track>>

Next == Put \/ Remove \/ Get \/ Contains \/ GetLength \/ Map

Spec == Init /\ [][Next]_vars

\* the calls that change the table
NextWrite == Put \/ Remove

SpecWrite == Init /\ [][NextWrite]_vars

\* the calls that allocate or free, with the heap recorded
InitMem == Start(BUCKARR_SMALL, "heap")

NextMem == Put \/ Remove \/ Free \/ FreeNull \/ New

SpecMem == InitMem /\ [][NextMem]_vars

\* the calls that set or show the order of the chains, with the order of the
\* puts recorded
InitOrder == Start(BUCKARR_SMALL, "order")

\* (the order does not depend on the values: every put binds the same one)
PutOrder == \E pcKey \in Keys : PutCall(pcKey, MaxValue)

NextOrder == PutOrder \/ Remove \/ Map

SpecOrder == InitOrder /\ [][NextOrder]_vars

\* a run of puts of distinct keys into a table with the sizes of the source:
\* the n-th put binds the decimal numeral of n to n
RECURSIVE SourceKey(_)
SourceKey(n) ==
    IF n < 10 THEN <<48 + n>> ELSE SourceKey(n \div 10) \o <<48 + (n % 10)>>

SourceValue(n) == n

InitSource == Start(BUCKARR_SOURCE, "none")

SourcePut ==
    /\ symtable.uiBindings < MaxPuts
    /\ PutCall(SourceKey(symtable.uiBindings + 1),
               SourceValue(symtable.uiBindings + 1))

NextSource == SourcePut

SpecSource == InitSource /\ [][NextSource]_vars

(* ------------------------ shape of the state --------------------------- *)

Bindings == [key : Keys, value : Values]

TypeOK ==
    /\ symtable.uiBuckets \in {BUCKARR[i] : i \in 1 .. Len(BUCKARR)}
    /\ DOMAIN symtable.array = 0 .. symtable.uiBuckets - 1
    /\ \A ui \in DOMAIN symtable.array :
           \A i \in 1 .. Len(symtable.array[ui]) :
               symtable.array[ui][i] \in Bindings

(* ----------------------- vocabulary of the claims ---------------------- *)

\* the positions <<ui, i>> of the bindings of t whose key is k, in any chain
Places(t, k) ==
    {pl \in UNION {{<<ui, i>> : i \in 1 .. Len(t.array[ui])} : ui \in DOMAIN t.array} :
        t.array[pl[1]][pl[2]].key = k}

HasBinding(t, k) == Places(t, k) # {}

\* number of calls of the visitor made with key k
Visits(calls, k) == Cardinality({i \in 1 .. Len(calls) : calls[i].key = k})

RECURSIVE SumLen(_, _)
SumLen(t, ui) ==
    IF ui >= t.uiBuckets THEN 0 ELSE Len(t.array[ui]) + SumLen(t, ui + 1)

BoundKeys == DOMAIN bound

(* ------------------------------ claims --------------------------------- *)

\* C1: from the empty table, after puts of pairwise distinct keys (each of
\* which returns 1), get returns for every key the value put with it and
\* getLength returns the number of keys put.
RoundTrip ==
    pure =>
        /\ last.op = "put" => last.ret = 1
        /\ \A k \in BoundKeys : SymTable_get(symtable, k) = bound[k]
        /\ SymTable_getLength(symtable) = Cardinality(BoundKeys)

RoundTripWitness ==
    /\ pure
    /\ last.op = "put"
    /\ Cardinality(BoundKeys) = NumKeys
    /\ \E k \in BoundKeys : bound[k] # NULL

\* C2: a put of a key that already has a binding returns 0 and leaves the
\* whole table as it was: binding count, bucket count and every chain, the
\* old value included, also when uiBindings >= uiBuckets.
DuplicatePutNoOp ==
    (last.op = "put" /\ HasBinding(pre, last.key)) =>
        /\ last.ret = 0
        /\ symtable = pre
        /\ SymTable_get(symtable, last.key) = SymTable_get(pre, last.key)

DuplicatePutWitness ==
    /\ last.op = "put"
    /\ HasBinding(pre, last.key)
    /\ last.value # SymTable_get(pre, last.key)
    /\ pre.uiBindings >= pre.uiBuckets
    /\ pre.uiBuckets # MAX_BUCKETS

\* C3: remove of a present key returns 1, decreases getLength by exactly 1
\* and leaves contains at 0; remove of an absent key returns 0 and leaves
\* getLength as it was; wherever the binding is in its chain.
RemovalCorrect ==
    last.op = "remove" =>
        IF HasBinding(pre, last.key)
        THEN /\ last.ret = 1
             /\ SymTable_getLength(symtable) = SymTable_getLength(pre) - 1
             /\ SymTable_contains(symtable, last.key) = 0
        ELSE /\ last.ret = 0
             /\ SymTable_getLength(symtable) = SymTable_getLength(pre)

\* a binding removed from the middle of a chain
RemovalWitness ==
    /\ last.op = "remove"
    /\ last.ret = 1
    /\ \E pl \in Places(pre, last.key) :
           /\ pl[2] > 1
           /\ pl[2] < Len(pre.array[pl[1]])

\* C4: a put that changes the bucket count loses, duplicates or alters no
\* binding: every other key is found, or not found, as before the put, with
\* the same value and the same number of bindings.
ResizeTransparent ==
    (last.op = "put" /\ symtable.uiBuckets # pre.uiBuckets) =>
        \A k \in Keys \ {last.key} :
            /\ SymTable_contains(symtable, k) = SymTable_contains(pre, k)
            /\ SymTable_get(symtable, k) = SymTable_get(pre, k)
            /\ Cardinality(Places(symtable, k)) = Cardinality(Places(pre, k))

\* the growth to the last size, after a removal, with a chain that is split
ResizeWitness ==
    /\ last.op = "put"
    /\ ~pure
    /\ pre.uiBuckets = BUCKARR[Len(BUCKARR) - 1]
    /\ symtable.uiBuckets = MAX_BUCKETS
    /\ \E ui \in DOMAIN pre.array :
           /\ Len(pre.array[ui]) >= 2
           /\ SymTable_hash(symtable.uiBuckets, pre.array[ui][1].key)
                  # SymTable_hash(symtable.uiBuckets, pre.array[ui][2].key)

\* C5: map calls the visitor exactly once for each live binding, with its key
\* and value, never for a key removed or never put, getLength times in all.
TraversalComplete ==
    last.op = "map" =>
        /\ \A k \in Keys :
               Visits(last.visited, k) = IF k \in BoundKeys THEN 1 ELSE 0
        /\ \A i \in 1 .. Len(last.visited) :
               /\ last.visited[i].key \in BoundKeys
               /\ last.visited[i].value = bound[last.visited[i].key]
        /\ Len(last.visited) = SymTable_getLength(symtable)

TraversalWitness ==
    /\ last.op = "map"
    /\ ~pure
    /\ symtable.uiBuckets = MAX_BUCKETS
    /\ Len(last.visited) >= 3
    /\ BoundKeys # Keys

\* C6 as stated: get returns the value stored under a bound key, and returns
\* NULL if and only if contains returns 0.
GetAbsentIffNotContained ==
    \A k \in Keys :
        /\ k \in BoundKeys => SymTable_get(symtable, k) = bound[k]
        /\ SymTable_get(symtable, k) = NULL <=> SymTable_contains(symtable, k) = 0

\* C6 as amended: get returns the value stored under a bound key and NULL for
\* a key that is not bound, so that it returns NULL if and only if contains
\* returns 0 or the value stored under the key is NULL.
GetValueOrNull ==
    \A k \in Keys :
        /\ SymTable_contains(symtable, k) = (IF k \in BoundKeys THEN 1 ELSE 0)
        /\ SymTable_get(symtable, k) = (IF k \in BoundKeys THEN bound[k] ELSE NULL)
        /\ SymTable_get(symtable, k) = NULL
               <=> \/ SymTable_contains(symtable, k) = 0
                   \/ (k \in BoundKeys /\ bound[k] = NULL)

\* get has returned NULL for a key bound to NULL
GetValueOrNullWitness ==
    /\ last.op = "get"
    /\ last.ret = NULL
    /\ last.key \in BoundKeys
    /\ SymTable_contains(symtable, last.key) = 1
    /\ \E k \in BoundKeys : bound[k] # NULL

\* C7: with no put or remove since SymTable_new, getLength is 0 and, for
\* every key, contains returns 0, get returns NULL, and remove returns 0 and
\* leaves the table empty.
EmptyTable ==
    (pure /\ BoundKeys = {}) =>
        /\ SymTable_getLength(symtable) = 0
        /\ last.op = "getLength" => last.ret = 0
        /\ last.op = "contains" => last.ret = 0
        /\ last.op = "get" => last.ret = NULL
        /\ \A k \in Keys :
               /\ SymTable_contains(symtable, k) = 0
               /\ SymTable_get(symtable, k) = NULL
               /\ SymTable_remove(symtable, k).ret = 0
               /\ SymTable_remove(symtable, k).table = symtable
        /\ \A ui \in DOMAIN symtable.array : symtable.array[ui] = <<>>

\* getLength has been called on the table as created
EmptyTableWitness ==
    /\ pure
    /\ BoundKeys = {}
    /\ last.op = "getLength"
    /\ symtable.uiBuckets = MIN_BUCKETS

\* C8: no two bindings of the table, in one chain or in two, have equal keys.
KeyUnique ==
    \A k \in Keys : Cardinality(Places(symtable, k)) <= 1

\* a put of a bound key has been refused, on a table that has grown to the
\* last size and has had a removal, with bindings in one chain and in two
KeyUniqueWitness ==
    /\ last.op = "put"
    /\ last.ret = 0
    /\ ~pure
    /\ symtable.uiBuckets = MAX_BUCKETS
    /\ \E ui \in DOMAIN symtable.array : Len(symtable.array[ui]) >= 2
    /\ Cardinality({ui \in DOMAIN symtable.array : symtable.array[ui] # <<>>}) >= 2

\* C9: uiBindings is the sum of the chain lengths of the bucket array; it is
\* changed only by a put that links a binding, by +1, and by a remove that
\* unlinks one, by -1; it never wraps below 0.
CountInvariant ==
    /\ symtable.uiBindings = SumLen(symtable, 0)
    /\ symtable.uiBindings >= 0
    /\ symtable.uiBindings # pre.uiBindings =>
           \/ /\ last.op = "put"
              /\ last.ret = 1
              /\ symtable.uiBindings = pre.uiBindings + 1
              /\ SumLen(symtable, 0) = SumLen(pre, 0) + 1
           \/ /\ last.op = "remove"
              /\ last.ret = 1
              /\ symtable.uiBindings = pre.uiBindings - 1
              /\ SumLen(symtable, 0) = SumLen(pre, 0) - 1

\* the last binding of a table that has grown to the last size is removed
CountWitness ==
    /\ last.op = "remove"
    /\ last.ret = 1
    /\ symtable.uiBuckets = MAX_BUCKETS
    /\ pre.uiBindings = 1
    /\ symtable.uiBindings = 0

\* C10: every binding of bucket ui hashes to ui under the current bucket
\* count, also right after a put that has changed the bucket count.
BucketPlacement ==
    \A ui \in DOMAIN symtable.array :
        \A i \in 1 .. Len(symtable.array[ui]) :
            SymTable_hash(symtable.uiBuckets, symtable.array[ui][i].key) = ui

\* a put has grown the table and linked a key whose bucket differs under the
\* old and the new bucket count
BucketPlacementWitness ==
    /\ last.op = "put"
    /\ last.ret = 1
    /\ symtable.uiBuckets # pre.uiBuckets
    /\ SymTable_hash(pre.uiBuckets, last.key)
           # SymTable_hash(symtable.uiBuckets, last.key)
    /\ HasBinding(symtable, last.key)

\* the sizes of BUCKARR
Sizes == {BUCKARR[i] : i \in 1 .. Len(BUCKARR)}

\* C11 as stated: below the maximum size, uiBindings < uiBuckets.
LoadFactorBelowOne ==
    symtable.uiBuckets # MAX_BUCKETS => symtable.uiBindings < symtable.uiBuckets

\* C11 as amended: below the maximum size, uiBindings <= uiBuckets, and a put
\* that would make uiBindings > uiBuckets grows the table first.
LoadFactorAtMostOne ==
    /\ symtable.uiBuckets # MAX_BUCKETS =>
           symtable.uiBindings <= symtable.uiBuckets
    /\ (/\ last.op = "put"
        /\ last.ret = 1
        /\ pre.uiBuckets # MAX_BUCKETS
        /\ pre.uiBindings + 1 > pre.uiBuckets) =>
           /\ symtable.uiBuckets > pre.uiBuckets
           /\ symtable.uiBindings <= symtable.uiBuckets

\* a put has filled a table below the maximum size without growing it
LoadFactorWitness ==
    /\ last.op = "put"
    /\ last.ret = 1
    /\ symtable.uiBuckets = pre.uiBuckets
    /\ symtable.uiBuckets # MAX_BUCKETS
    /\ symtable.uiBuckets > MIN_BUCKETS
    /\ symtable.uiBindings = symtable.uiBuckets

\* C12: the table is created with the first size of BUCKARR, and uiBuckets is
\* always a size of BUCKARR and the length of the bucket array.
BucketCountDomain ==
    /\ last.op = "new" => symtable.uiBuckets = BUCKARR[1]
    /\ symtable.uiBuckets \in Sizes
    /\ DOMAIN symtable.array = 0 .. symtable.uiBuckets - 1

BucketCountWitness ==
    /\ last.op = "put"
    /\ pre.uiBuckets # symtable.uiBuckets
    /\ symtable.uiBuckets = MAX_BUCKETS
    /\ DOMAIN pre.array # DOMAIN symtable.array

\* C15: a put of an absent key changes the bucket count if and only if
\* uiBindings >= uiBuckets before it with uiBuckets below the maximum, and
\* then to the next size of BUCKARR.
OneStepGrowth ==
    (last.op = "put" /\ last.ret = 1) =>
        /\ symtable.uiBuckets # pre.uiBuckets
               <=> (pre.uiBindings >= pre.uiBuckets /\ pre.uiBuckets # MAX_BUCKETS)
        /\ symtable.uiBuckets # pre.uiBuckets =>
               \E i \in 1 .. Len(BUCKARR) - 1 :
                   /\ pre.uiBuckets = BUCKARR[i]
                   /\ symtable.uiBuckets = BUCKARR[i + 1]

\* a growth from a size that is not the first, to a size that is not the last
\* but one reached by restarting the search at the first
OneStepWitness ==
    /\ last.op = "put"
    /\ last.ret = 1
    /\ pre.uiBuckets = BUCKARR[2]
    /\ symtable.uiBuckets = BUCKARR[3]
    /\ PutIdx(pre.uiBindings, pre.uiBuckets, 0) = 2

\* C16: at the maximum size no call changes the bucket count; a put of an
\* absent key with uiBindings >= uiBuckets returns 1, binds the key and
\* increments the count, and the search reads no entry past the last of BUCKARR.
Saturation ==
    pre.uiBuckets = MAX_BUCKETS =>
        /\ symtable.uiBuckets = MAX_BUCKETS
        /\ (last.op = "put" /\ ~HasBinding(pre, last.key)) =>
               /\ last.ret = 1
               /\ SymTable_contains(symtable, last.key) = 1
               /\ SymTable_get(symtable, last.key) = last.value
               /\ symtable.uiBindings = pre.uiBindings + 1
               /\ DOMAIN symtable.array = DOMAIN pre.array
               /\ PutIdx(pre.uiBindings, pre.uiBuckets, 0) + 1 \in DOMAIN BUCKARR

SaturationWitness ==
    /\ last.op = "put"
    /\ last.ret = 1
    /\ pre.uiBuckets = MAX_BUCKETS
    /\ pre.uiBindings >= pre.uiBuckets
    /\ symtable.uiBindings > symtable.uiBuckets

\* chain without the bindings of key k, the others in their order
Without(chain, k) == SelectSeq(chain, LAMBDA b : b.key # k)

\* C19: remove, found or not, leaves the bucket count, every other chain and
\* the order of the rest of the key's chain as they were, and contains and get
\* of every other key return what they returned before.
RemoveFrame ==
    last.op = "remove" =>
        LET uiHash == SymTable_hash(pre.uiBuckets, last.key)
        IN  /\ symtable.uiBuckets = pre.uiBuckets
            /\ DOMAIN symtable.array = DOMAIN pre.array
            /\ \A ui \in DOMAIN pre.array \ {uiHash} :
                   symtable.array[ui] = pre.array[ui]
            /\ symtable.array[uiHash] = Without(pre.array[uiHash], last.key)
            /\ \A k \in Keys \ {last.key} :
                   /\ SymTable_contains(symtable, k) = SymTable_contains(pre, k)
                   /\ SymTable_get(symtable, k) = SymTable_get(pre, k)

\* a binding with a predecessor and a successor is removed, another chain
\* being non-empty
RemoveFrameWitness ==
    /\ last.op = "remove"
    /\ last.ret = 1
    /\ LET uiHash == SymTable_hash(pre.uiBuckets, last.key)
       IN  /\ Len(pre.array[uiHash]) >= 3
           /\ pre.array[uiHash][2].key = last.key
           /\ \E ui \in DOMAIN pre.array \ {uiHash} : pre.array[ui] # <<>>

ReadOps == {"contains", "get", "getLength", "map"}

\* C20: contains, get, getLength and map leave the table as it was: bucket
\* count, binding count, every chain, key and value; a second call returns
\* what the first returned.
ReadOnly ==
    last.op \in ReadOps =>
        /\ symtable = pre
        /\ last.op = "contains" => SymTable_contains(symtable, last.key) = last.ret
        /\ last.op = "get" => SymTable_get(symtable, last.key) = last.ret
        /\ last.op = "getLength" => SymTable_getLength(symtable) = last.ret
        /\ last.op = "map" => SymTable_map(symtable) = last.visited

\* get has found a binding that is not the head of its chain
ReadOnlyWitness ==
    /\ last.op = "get"
    /\ symtable.uiBindings >= 3
    /\ LET chain == symtable.array[SymTable_hash(symtable.uiBuckets, last.key)]
       IN  ChainFind(chain, last.key, 1) > 1

\* the cells a table owns: its struct, its bucket array, and a node and a key
\* copy for each binding
Owned(t) ==
    {TableCell, ArrayCell(t.uiBuckets)}
        \cup UNION {{NodeCell(k), KeyCell(k)} : k \in {k \in Keys : HasBinding(t, k)}}

\* C13: free is never called on a cell that is not allocated; while the
\* table lives the allocated cells are exactly the cells it owns, each
\* allocated once (so every cell of a chain is allocated, and a replaced
\* bucket array, a removed node and its key are freed); after SymTable_free no
\* cell is allocated; a change of the bucket count allocates and frees bucket
\* arrays only; SymTable_free of a NULL handle changes nothing.
MemorySafe ==
    /\ ~heap.err
    /\ Alive =>
           /\ DOMAIN heap.cells = Owned(symtable)
           /\ \A c \in DOMAIN heap.cells : heap.cells[c] = 1
    /\ ~Alive => DOMAIN heap.cells = {}
    /\ last.op = "free" => DOMAIN heap.cells = {}
    /\ last.op = "freeNull" => symtable = pre
    /\ \A n \in Sizes :
           LET events == ChangeMem(symtable, n)
           IN  \A i \in 1 .. Len(events) : events[i].cell[1] = "array"

\* SymTable_free of a table that has grown to the last size, after a removal,
\* with at least three bindings
MemorySafeWitness ==
    /\ last.op = "free"
    /\ ~pure
    /\ symtable.uiBuckets = MAX_BUCKETS
    /\ symtable.uiBindings >= 3
    /\ DOMAIN heap.cells = {}

\* C14: from the empty table of 519 buckets, after puts of N distinct keys
\* with 519 < N <= 1021, the table has 1021 buckets, and get returns for each
\* of the N keys the value put with it.
GrowthScenario ==
    /\ BUCKARR[1] = 519
    /\ BUCKARR[2] = 1021
    /\ (symtable.uiBindings > BUCKARR[1] /\ symtable.uiBindings <= BUCKARR[2]) =>
           /\ symtable.uiBuckets = BUCKARR[2]
           /\ SymTable_getLength(symtable) = Cardinality(BoundKeys)
           /\ \A n \in 1 .. symtable.uiBindings :
                  /\ SymTable_contains(symtable, SourceKey(n)) = 1
                  /\ SymTable_get(symtable, SourceKey(n)) = SourceValue(n)

\* 600 keys have been put
GrowthScenarioWitness ==
    /\ last.op = "put"
    /\ pure
    /\ pre.uiBindings = 599
    /\ symtable.uiBindings = 600
    /\ symtable.uiBuckets = 1021
    /\ SymTable_get(symtable, SourceKey(600)) = SourceValue(600)

\* The polynomial of C17 computed apart from SymTable_hash, on numbers
\* written as their 32 binary digits, lowest first: sums drop the carry out of
\* digit 32 (mod 2^32), and a product is the sum of the shifts of one factor
\* by the digits of the other.
WORD == 32

BitsOf(x) == [i \in 1 .. WORD |-> IF i = WORD THEN 0 ELSE (x \div 2 ^ (i - 1)) % 2]

RECURSIVE BitsAdd(_, _, _, _)
BitsAdd(a, b, i, carry) ==
    IF i > WORD THEN <<>>
    ELSE <<(a[i] + b[i] + carry) % 2>>
             \o BitsAdd(a, b, i + 1, (a[i] + b[i] + carry) \div 2)

BitsShl(a, s) == [i \in 1 .. WORD |-> IF i <= s THEN 0 ELSE a[i - s]]

RECURSIVE BitsMul(_, _, _)
BitsMul(a, m, j) ==
    IF j > WORD THEN BitsOf(0)
    ELSE IF m[j] = 1
         THEN BitsAdd(BitsShl(a, j - 1), BitsMul(a, m, j + 1), 1, 0)
         ELSE BitsMul(a, m, j + 1)

\* the number of digits i .. WORD, modulo n
RECURSIVE BitsMod(_, _, _)
BitsMod(a, n, i) ==
    IF i > WORD THEN 0 ELSE (a[i] + 2 * BitsMod(a, n, i + 1)) % n

MultiplierBits == BitsOf(HASH_MULTIPLIER)

\* h = (h * 65599 + c) mod 2^32 over the first len characters, from 0
RECURSIVE RefPoly(_, _)
RefPoly(pcKey, len) ==
    IF len = 0 THEN BitsOf(0)
    ELSE BitsAdd(BitsMul(RefPoly(pcKey, len - 1), MultiplierBits, 1),
                 BitsOf(pcKey[len]), 1, 0)

RefHash(n, pcKey) == BitsMod(RefPoly(pcKey, Len(pcKey)), n, 1)

\* C17: for the key of a put and every size n of BUCKARR, SymTable_hash(n, key)
\* is in 0 .. n - 1 and is the polynomial h = (h * 65599 + c) mod 2^32 of the
\* characters, reduced mod n; the binding is put in the bucket of this index
\* for the bucket count, and after a change of the bucket count every binding
\* is in the bucket of this index for the new count.
HashReference ==
    last.op = "put" =>
        /\ LET h == RefPoly(last.key, Len(last.key))
           IN  \A n \in Sizes :
                   /\ SymTable_hash(n, last.key) \in 0 .. n - 1
                   /\ SymTable_hash(n, last.key) = BitsMod(h, n, 1)
        /\ \E pl \in Places(symtable, last.key) :
               pl[1] = RefHash(symtable.uiBuckets, last.key)
        /\ symtable.uiBuckets # pre.uiBuckets =>
               \A ui \in DOMAIN symtable.array :
                   \A i \in 1 .. Len(symtable.array[ui]) :
                       RefHash(symtable.uiBuckets, symtable.array[ui][i].key) = ui

\* a change from 519 to 1021 buckets has moved a binding to a bucket of
\* another index, and the key put has three characters (its polynomial
\* exceeds 2^32)
HashReferenceWitness ==
    /\ last.op = "put"
    /\ Len(last.key) = 3
    /\ pre.uiBuckets = 519
    /\ symtable.uiBuckets = 1021
    /\ \E k \in DOMAIN bound \ {last.key} :
           RefHash(pre.uiBuckets, k) # RefHash(symtable.uiBuckets, k)

\* SymTable_map on t calls the visitor with key k1 before it calls it with
\* key k2, the two being in one bucket
VisitedBefore(t, k1, k2) ==
    LET calls == SymTable_map(t)
    IN  /\ SymTable_hash(t.uiBuckets, k1) = SymTable_hash(t.uiBuckets, k2)
        /\ \E i, j \in 1 .. Len(calls) :
               /\ i < j
               /\ calls[i].key = k1
               /\ calls[j].key = k2

\* k1 was put after k2
PutAfter(k1, k2) ==
    \E i, j \in 1 .. Len(order) : i > j /\ order[i] = k1 /\ order[j] = k2

\* C18 as stated: of two bindings in one bucket, map visits first the one put
\* later, in every state.
NewestFirstAlways ==
    \A k1, k2 \in BoundKeys :
        VisitedBefore(symtable, k1, k2) => PutAfter(k1, k2)

\* C18 as amended: of two bindings in one bucket, map visits first the one put
\* later, unless both were in the table at the last change of the bucket
\* count; a change of the bucket count reverses the order of two bindings of
\* one old bucket that it relinks into one new bucket.
NewestFirstSinceChange ==
    /\ \A k1, k2 \in BoundKeys :
           (VisitedBefore(symtable, k1, k2) /\ ~({k1, k2} \subseteq moved))
               => PutAfter(k1, k2)
    /\ (last.op = "put" /\ symtable.uiBuckets # pre.uiBuckets) =>
           \A k1, k2 \in BoundKeys \ {last.key} :
               (/\ VisitedBefore(pre, k1, k2)
                /\ SymTable_hash(symtable.uiBuckets, k1)
                       = SymTable_hash(symtable.uiBuckets, k2))
                   => VisitedBefore(symtable, k2, k1)
    /\ last.op = "map" => last.visited = SymTable_map(symtable)

\* map has visited, in one bucket, the binding put by the last change of the
\* bucket count, then two bindings relinked by that change, the older of the
\* two first
NewestFirstWitness ==
    /\ last.op = "map"
    /\ \E k1, k2, k3 \in BoundKeys :
           /\ k3 \notin moved
           /\ {k1, k2} \subseteq moved
           /\ VisitedBefore(symtable, k3, k1)
           /\ VisitedBefore(symtable, k1, k2)
           /\ PutAfter(k3, k2)
           /\ PutAfter(k2, k1)

====
